---- MODULE Spec2Model ----
(***************************************************************************)
(* State-machine model of the COVA restaurant backend (src/main.py,        *)
(* src/schemas.py): signup / login, bearer-token issuance and              *)
(* verification, identity resolution, the admin role gate, and the menu,   *)
(* booking and order collections of the document store.                    *)
(*                                                                         *)
(* Optional values (Python None / a missing header) are sequences of       *)
(* length 0 or 1: <<>> is None, <<v>> is v.                                *)
(* The clock counts whole seconds, as the exp claim of a JWT does.         *)
(***************************************************************************)
EXTENDS Integers, Sequences, FiniteSets, Bags, TLC

(* ---------------------------- bounds ----------------------------------- *)
MaxDocs == 2

(* ---------------------------- inputs ----------------------------------- *)
Emails == {"a@x.com", "b@x.com"}
Passwords == {"pw123", "other"}
Salts == {"s1", "s2"}
MenuItems == {[name |-> "soup", category |-> "Starters", is_bestseller |-> FALSE],
              [name |-> "steak", category |-> "Mains", is_bestseller |-> TRUE]}
Bookings == {[name |-> "ann", guests |-> 2]}
Categories == {<<>>, <<"">>, <<"Mains">>}
Bestseller == {<<>>, <<TRUE>>}

(* ------------------------- program constants --------------------------- *)
ACCESS_TOKEN_EXPIRE_MINUTES == 60 * 24
DefaultTtl == ACCESS_TOKEN_EXPIRE_MINUTES * 60
Horizon == 2 * DefaultTtl
Delays == {DefaultTtl}
Ttls == {<<>>, <<-1>>, <<0>>, <<1>>}

\* user, menuitem, booking, order: the collections of the document store
\* now:     the clock, in seconds
\* issued:  the bearer token the client holds (empty, or one token)
\* pending: signup requests between their existence check and their insert
\* last:    the response to the most recent request
VARIABLES user, menuitem, booking, order, now, issued, pending, last

vars == <<user, menuitem, booking, order, now, issued, pending, last>>

(* --------------------------- credential hasher ------------------------- *)
\* bcrypt: the hash embeds its salt; the digest is a one-way, injective
\* image of (salt, password), written here as the pair itself.
get_password_hash(password, salt) == [salt |-> salt, digest |-> <<salt, password>>]

verify_password(plain_password, hashed_password) ==
    <<hashed_password.salt, plain_password>> = hashed_password.digest

(* --------------------------- document store ---------------------------- *)
\* The store is configured (db is not None): a collection is the sequence of
\* its documents in insertion order, and find_one returns the first match.
ObjectId(c, n) == [c |-> c, n |-> n]

\* str(ObjectId)
StrId(oid) == oid.c \o "-" \o ToString(oid.n)

\* mutant: the filter names a key the documents do not carry the value under
find_one_wrong_key(coll, field, value) ==
    LET hits == SelectSeq(coll, LAMBDA d : d["role"] = value)
    IN  IF hits = <<>> THEN <<>> ELSE <<hits[1]>>

find_one(coll, field, value) ==
    LET hits == SelectSeq(coll, LAMBDA d : d[field] = value)
    IN  IF hits = <<>> THEN <<>> ELSE <<hits[1]>>

NewId(coll, c) == ObjectId(c, Len(coll) + 1)

create_document(coll, c, data) == Append(coll, ("_id" :> NewId(coll, c)) @@ data)

\* filters: a filter document, field -> required value (<<>> filters nothing)
get_documents(coll, filters) ==
    SelectSeq(coll, LAMBDA d : \A k \in DOMAIN filters : d[k] = filters[k])

\* the "_id" of each returned document is replaced by its string form
Serialize(docs) == [i \in 1..Len(docs) |-> ("_id" :> StrId(docs[i]["_id"])) @@ docs[i]]

(* ----------------------------- token service --------------------------- *)
jwt_encode(payload) == [payload |-> payload, sig |-> TRUE]

\* Python truthiness of Optional[timedelta]: None and timedelta(0) are falsy
Truthy(expires_delta) == expires_delta # <<>> /\ expires_delta[1] # 0

create_access_token(data, expires_delta, t) ==
    LET delta == IF Truthy(expires_delta) THEN expires_delta[1] ELSE DefaultTtl
        expire == t + delta
    IN  jwt_encode(("exp" :> expire) @@ data)

\* mutant: decoding with the expiry check switched off
jwt_decode_no_exp(token, t) ==
    IF ~token.sig THEN [err |-> "InvalidToken", payload |-> <<>>]
    ELSE [err |-> "", payload |-> <<token.payload>>]

jwt_decode(token, t) ==
    IF ~token.sig THEN [err |-> "InvalidToken", payload |-> <<>>]
    ELSE IF token.payload.exp < t THEN [err |-> "ExpiredToken", payload |-> <<>>]
    ELSE [err |-> "", payload |-> <<token.payload>>]

PayloadGet(payload, key) == IF key \in DOMAIN payload THEN <<payload[key]>> ELSE <<>>

Unauthorized(reason) == [status |-> 401, reason |-> reason, user |-> <<>>]

\* mutant: a role claim carried by the token overrides the stored role
get_current_user_token_role(hdr, t, users) ==
    IF hdr = <<>> THEN Unauthorized("NotAuthenticated")
    ELSE LET d == jwt_decode(hdr[1], t)
         IN  IF d.err # "" THEN Unauthorized(d.err)
             ELSE LET email == PayloadGet(d.payload[1], "sub")
                      role == PayloadGet(d.payload[1], "role")
                  IN  IF email = <<>> THEN Unauthorized("MissingSubject")
                      ELSE LET user_doc == find_one(users, "email", email[1])
                           IN  IF user_doc = <<>> THEN Unauthorized("UserNotFound")
                               ELSE [status |-> 200, reason |-> "",
                                     user |-> IF role = <<>> THEN user_doc
                                              ELSE <<[user_doc[1] EXCEPT !.role = role[1]]>>]

get_current_user(hdr, t, users) ==
    IF hdr = <<>> THEN Unauthorized("NotAuthenticated")
    ELSE LET d == jwt_decode(hdr[1], t)
         IN  IF d.err # "" THEN Unauthorized(d.err)
             ELSE LET email == PayloadGet(d.payload[1], "sub")
                  IN  IF email = <<>> THEN Unauthorized("MissingSubject")
                      ELSE LET user_doc == find_one(users, "email", email[1])
                           IN  IF user_doc = <<>> THEN Unauthorized("UserNotFound")
                               ELSE [status |-> 200, reason |-> "", user |-> user_doc]

(* ----------------------------- access policy --------------------------- *)
\* mutant: the gate lets every known role through
is_admin_any_role(u) == u.role \in {"admin", "customer"}

is_admin(u) == u.role = "admin"

(* ------------------------------- requests ------------------------------ *)
\* a tampered token, or one signed with another key
Forged == {[payload |-> [sub |-> "a@x.com", role |-> "admin", exp |-> Horizon + DefaultTtl],
            sig |-> FALSE]}

\* Authorization header of a request: absent, or a bearer token the client
\* was given earlier, or a forged one
Headers == {<<>>} \cup {<<t>> : t \in issued \cup Forged}

SignUpBodies == [email : Emails, password : Passwords]

\* user_id field of a submitted Order (Optional[str], schemas.py)
BodyUserIds == {<<>>, <<"user-1">>}

TokenData == {[sub |-> "b@x.com", role |-> "admin"], [role |-> "admin"]}

\* issued holds the one token, among those issued so far, that the client
\* presents next: when a token is issued the client switches to it or stays
\* with the one it has
Keep(tokens, t) == {tokens, {t}}

\* documents inserted so far (a provisioned administrator is not counted)
Seeded == IF user # <<>> /\ user[1].role = "admin" THEN 1 ELSE 0

Inserted == Len(user) + Len(menuitem) + Len(booking) + Len(order) - Seeded

Resp(op, status, hdr, u, arg, out) ==
    [op |-> op, status |-> status, hdr |-> hdr, user |-> u, arg |-> arg, out |-> out]

Idle == Resp("none", 0, <<>>, <<>>, <<>>, <<>>)

\* pending: the bag of signup requests (their bodies) that have passed the
\* existence check and not yet inserted
Pending == BagCardinality(pending)

HasRoom == Inserted + Pending < MaxDocs

(* -------------------------------- signup ------------------------------- *)
\* mutant: the new account is given the administrator role
new_user_as_admin(body, salt) ==
    [email |-> body.email,
     password_hash |-> get_password_hash(body.password, salt),
     is_active |-> TRUE,
     role |-> "admin"]

new_user(body, salt) ==
    [email |-> body.email,
     password_hash |-> get_password_hash(body.password, salt),
     is_active |-> TRUE,
     role |-> "customer"]

\* signup, up to and including the existence check
SignupLookup(body) ==
    /\ HasRoom
    /\ LET existing == find_one(user, "email", body.email)
       IN  IF existing # <<>>
           THEN /\ last' = Resp("signup", 400, <<>>, <<>>, body, "Email already registered")
                /\ pending' = pending
           ELSE /\ last' = Resp("signup_lookup", 0, <<>>, <<>>, body, <<>>)
                /\ pending' = pending (+) SetToBag({body})
    /\ UNCHANGED <<user, menuitem, booking, order, now, issued>>

\* signup, from the insert to the response
SignupInsert(body, salt) ==
    /\ BagIn(body, pending)
    /\ LET user_id == StrId(NewId(user, "user"))
           token == create_access_token([sub |-> body.email], <<>>, now)
       IN  /\ user' = create_document(user, "user", new_user(body, salt))
           /\ issued' \in Keep(issued, token)
           /\ last' = Resp("signup", 200, <<>>, <<>>, body,
                           [user_id |-> user_id, access_token |-> token])
    /\ pending' = pending (-) SetToBag({body})
    /\ UNCHANGED <<menuitem, booking, order, now>>

(* -------------------------------- login -------------------------------- *)
Login(email, password) ==
    /\ LET user_doc == find_one(user, "email", email)
           form == [email |-> email, password |-> password]
       IN  IF user_doc = <<>>
           THEN /\ last' = Resp("login", 400, <<>>, <<>>, form, "Incorrect email or password")
                /\ issued' = issued
           ELSE IF ~verify_password(password, user_doc[1].password_hash)
           THEN /\ last' = Resp("login", 400, <<>>, <<>>, form, "Incorrect email or password")
                /\ issued' = issued
           ELSE LET token == create_access_token([sub |-> user_doc[1].email], <<>>, now)
                IN  /\ last' = Resp("login", 200, <<>>, <<>>, form, token)
                    /\ issued' \in Keep(issued, token)
    /\ UNCHANGED <<user, menuitem, booking, order, now, pending>>

(* --------------------------------- menu -------------------------------- *)
AddMenuItem(hdr, item) ==
    /\ LET auth == get_current_user(hdr, now, user)
       IN  IF auth.status # 200
           THEN /\ last' = Resp("add_menu_item", 401, hdr, <<>>, <<>>, auth.reason)
                /\ menuitem' = menuitem
           ELSE IF ~is_admin(auth.user[1])
           THEN /\ last' = Resp("add_menu_item", 403, hdr, auth.user, <<>>, "Admins only")
                /\ menuitem' = menuitem
           ELSE /\ HasRoom
                /\ menuitem' = create_document(menuitem, "menuitem", item)
                /\ last' = Resp("add_menu_item", 200, hdr, auth.user, item,
                                StrId(NewId(menuitem, "menuitem")))
    /\ UNCHANGED <<user, booking, order, now, issued, pending>>

menu_filters(category, bestseller) ==
    LET picked == (IF category # <<>> /\ category[1] # "" THEN {"category"} ELSE {})
                      \cup (IF bestseller # <<>> THEN {"is_bestseller"} ELSE {})
    IN  [k \in picked |-> IF k = "category" THEN category[1] ELSE bestseller[1]]

ListMenu(category, bestseller) ==
    /\ last' = Resp("list_menu", 200, <<>>, <<>>, <<>>,
                    Serialize(get_documents(menuitem, menu_filters(category, bestseller))))
    /\ UNCHANGED <<user, menuitem, booking, order, now, issued, pending>>

(* ------------------------------- bookings ------------------------------ *)
CreateBooking(b) ==
    /\ HasRoom
    /\ booking' = create_document(booking, "booking", b)
    /\ last' = Resp("create_booking", 200, <<>>, <<>>, b, StrId(NewId(booking, "booking")))
    /\ UNCHANGED <<user, menuitem, order, now, issued, pending>>

ListBookings(hdr) ==
    /\ LET auth == get_current_user(hdr, now, user)
       IN  IF auth.status # 200
           THEN last' = Resp("list_bookings", 401, hdr, <<>>, <<>>, auth.reason)
           ELSE IF ~is_admin(auth.user[1])
           THEN last' = Resp("list_bookings", 403, hdr, auth.user, <<>>, "Admins only")
           ELSE last' = Resp("list_bookings", 200, hdr, auth.user, <<>>,
                             Serialize(get_documents(booking, <<>>)))
    /\ UNCHANGED <<user, menuitem, booking, order, now, issued, pending>>

(* -------------------------------- orders ------------------------------- *)
\* order.model_dump(), then the stamp of the resolved user's id
\* mutant: the stamp is applied only when the body names no user
order_dict_keep_body(body, u) ==
    IF u # <<>> /\ body.user_id = <<>>
    THEN [body EXCEPT !.user_id = <<StrId(u[1]["_id"])>>] ELSE body

order_dict(body, u) ==
    IF u # <<>> THEN [body EXCEPT !.user_id = <<StrId(u[1]["_id"])>>] ELSE body

CreateOrder(hdr, uid) ==
    /\ LET auth == get_current_user(hdr, now, user)
           body == [user_id |-> uid, status |-> "pending"]
       IN  IF auth.status # 200
           THEN /\ last' = Resp("create_order", 401, hdr, <<>>, <<>>, auth.reason)
                /\ order' = order
           ELSE /\ HasRoom
                /\ order' = create_document(order, "order", order_dict(body, auth.user))
                /\ last' = Resp("create_order", 200, hdr, auth.user, body,
                                StrId(NewId(order, "order")))
    /\ UNCHANGED <<user, menuitem, booking, now, issued, pending>>

orders_filters(u) == [k \in {"user_id"} |-> <<StrId(u["_id"])>>]

ListOrders(hdr) ==
    /\ LET auth == get_current_user(hdr, now, user)
       IN  IF auth.status # 200
           THEN last' = Resp("list_orders", 401, hdr, <<>>, <<>>, auth.reason)
           ELSE last' = Resp("list_orders", 200, hdr, auth.user, <<>>,
                             Serialize(get_documents(order, orders_filters(auth.user[1]))))
    /\ UNCHANGED <<user, menuitem, booking, order, now, issued, pending>>

(* ------------------------- clock and direct issue ---------------------- *)
Tick(d) ==
    /\ now + d <= Horizon
    /\ now' = now + d
    /\ last' = Idle
    /\ UNCHANGED <<user, menuitem, booking, order, issued, pending>>

\* the Token Service's issue operation called with an explicit ttl
Issue(data, ttl) ==
    /\ LET token == create_access_token(data, ttl, now)
       IN  /\ last' = Resp("issue", 200, <<>>, <<>>, [data |-> data, ttl |-> ttl], token)
           /\ issued' \in Keep(issued, token)
    /\ UNCHANGED <<user, menuitem, booking, order, now, pending>>

(* ----------------------------- specification --------------------------- *)
\* an administrator exists only if the store was provisioned with one
SeedAdmin ==
    [_id |-> ObjectId("user", 1),
     email |-> "a@x.com",
     password_hash |-> get_password_hash("pw123", "s1"),
     is_active |-> TRUE,
     role |-> "admin"]

Init ==
    /\ user \in {<<>>, <<SeedAdmin>>}
    /\ menuitem = <<>>
    /\ booking = <<>>
    /\ order = <<>>
    /\ now = 0
    /\ issued = {}
    /\ pending = EmptyBag
    /\ last = Idle

Next ==
    \/ \E body \in SignUpBodies : SignupLookup(body)
    \/ \E body \in SignUpBodies, salt \in Salts : SignupInsert(body, salt)
    \/ \E email \in Emails, password \in Passwords : Login(email, password)
    \/ \E hdr \in Headers, item \in MenuItems : AddMenuItem(hdr, item)
    \/ \E category \in Categories, bestseller \in Bestseller : ListMenu(category, bestseller)
    \/ \E b \in Bookings : CreateBooking(b)
    \/ \E hdr \in Headers : ListBookings(hdr)
    \/ \E hdr \in Headers, uid \in BodyUserIds : CreateOrder(hdr, uid)
    \/ \E hdr \in Headers : ListOrders(hdr)
    \/ \E d \in Delays : Tick(d)

Spec == Init /\ [][Next]_vars

\* The token service and the identity resolver under direct issue: the
\* operations that take a bearer token, one signup per email to populate the
\* store, the clock, and create_access_token called with an explicit ttl.
TokenSignUps == {b \in SignUpBodies : b.password = "pw123"}

NextToken ==
    \/ \E body \in TokenSignUps : SignupLookup(body)
    \/ \E body \in TokenSignUps : SignupInsert(body, "s1")
    \/ \E hdr \in Headers, item \in MenuItems : AddMenuItem(hdr, item)
    \/ \E hdr \in Headers : ListBookings(hdr)
    \/ \E hdr \in Headers, uid \in BodyUserIds : CreateOrder(hdr, uid)
    \/ \E hdr \in Headers : ListOrders(hdr)
    \/ \E d \in Delays : Tick(d)
    \/ \E data \in TokenData, ttl \in Ttls : Issue(data, ttl)

SpecToken == Init /\ [][NextToken]_vars

(* ================================ claims =============================== *)
AuthOps == {"add_menu_item", "list_bookings", "create_order", "list_orders"}

AdminOps == {"add_menu_item", "list_bookings"}

Records(coll) == {coll[i] : i \in 1..Len(coll)}

WithEmail(users, e) == {u \in Records(users) : u.email = e}

\* the response just given is the one of a request that presented a signed token
PresentedSigned(r) == r.op \in AuthOps /\ r.hdr # <<>> /\ r.hdr[1].sig

\* C1: an order placed without any bearer credential succeeds, is stored, and
\* the stored order carries no user identity.
C1_AnonymousOrderSucceeds ==
    (last.op = "create_order" /\ last.hdr = <<>>)
        => /\ last.status = 200
           /\ order # <<>>
           /\ order[Len(order)].user_id = <<>>

\* C2: a signup whose existence check finds a record with its email is
\* rejected with 400 "Email already registered", inserts nothing, returns no
\* token and leaves the user collection unchanged; a signup whose check finds
\* none is accepted and its insert adds exactly one record, for that email.
C2_Step ==
    /\ (last'.op = "signup" /\ last'.status = 400)
          => /\ WithEmail(user, last'.arg.email) # {}
             /\ last'.out = "Email already registered"
             /\ UNCHANGED <<user, issued, pending>>
    /\ last'.op = "signup_lookup"
          => /\ WithEmail(user, last'.arg.email) = {}
             /\ pending' = pending (+) SetToBag({last'.arg})
             /\ user' = user
    /\ (last'.op = "signup" /\ last'.status = 200)
          => /\ BagIn(last'.arg, pending)
             /\ pending' = pending (-) SetToBag({last'.arg})
             /\ Len(user') = Len(user) + 1
             /\ SubSeq(user', 1, Len(user)) = user
             /\ user'[Len(user')].email = last'.arg.email
             /\ last'.out.access_token.payload.sub = last'.arg.email

C2_SignupDuplicateRejected == [][C2_Step]_vars

C2_Witness ==
    /\ last.op = "signup"
    /\ last.status = 400
    /\ WithEmail(user, last.arg.email) # {}

\* C3: no two user records carry the same email, in every reachable state,
\* whatever the interleaving of concurrent signups.
C3_EmailUnique ==
    \A i, j \in 1..Len(user) : user[i].email = user[j].email => i = j

\* C4: an admin-only operation (add_menu_item, list_bookings) called with a
\* token that resolves to a user succeeds iff that user's stored role is
\* "admin"; otherwise it is rejected with 403 and inserts no menu item; the
\* menu changes only in a step of add_menu_item whose resolved user is a
\* stored record with role "admin".
C4_Step ==
    /\ (last'.op \in AdminOps /\ last'.user # <<>>)
          => /\ last'.user[1] \in Records(user)
             /\ last'.status = 200 <=> last'.user[1].role = "admin"
             /\ last'.status # 200 => (last'.status = 403 /\ menuitem' = menuitem)
    /\ menuitem' # menuitem
          => /\ last'.op = "add_menu_item"
             /\ last'.status = 200
             /\ last'.user # <<>>
             /\ last'.user[1] \in Records(user)
             /\ last'.user[1].role = "admin"

C4_RoleGate == [][C4_Step]_vars

\* an administrator has added a menu item, and a customer is then refused
C4_Witness ==
    /\ menuitem # <<>>
    /\ last.op \in AdminOps
    /\ last.status = 403
    /\ last.user # <<>>
    /\ last.user[1].role = "customer"

\* C5: after a successful signup(E, P), login(E, P') succeeds iff P' verifies
\* against the stored hash of P; the token of a successful login, and the one
\* signup returns, has subject E and resolves through get_current_user to the
\* record that signup created; login for an unregistered email or with a
\* wrong password is rejected (400) and issues no token.
C5_RoundTrip ==
    /\ last.op = "login"
          => /\ \A u \in WithEmail(user, last.arg.email) :
                    last.status = 200 <=> verify_password(last.arg.password, u.password_hash)
             /\ WithEmail(user, last.arg.email) = {} => last.status = 400
             /\ last.status = 200
                   => /\ last.out.payload.sub = last.arg.email
                      /\ get_current_user(<<last.out>>, now, user).user
                             = find_one(user, "email", last.arg.email)
    /\ (last.op = "signup" /\ last.status = 200)
          => /\ last.out.access_token.payload.sub = last.arg.email
             /\ LET r == get_current_user(<<last.out.access_token>>, now, user)
                IN  /\ r.status = 200
                    /\ StrId(r.user[1]["_id"]) = last.out.user_id

\* C6: the expiry of an issued token is the issue time plus the ttl passed,
\* for every ttl passed (zero and negative included), and the issue time plus
\* the 24-hour default only when no ttl is passed.
C6_ExpiryIsIssuePlusTtl ==
    last.op = "issue"
        => last.out.payload.exp
               = now + (IF last.arg.ttl = <<>> THEN DefaultTtl ELSE last.arg.ttl[1])

\* C7: a request that presents a token whose expiry lies in the past is
\* answered 401 (ExpiredToken internally) and changes nothing in the store;
\* the clock never runs backwards, so a token that is expired stays expired.
Expired(token, t) == token.payload.exp < t

C7_Step ==
    /\ (PresentedSigned(last') /\ Expired(last'.hdr[1], now'))
          => /\ last'.status = 401
             /\ last'.out = "ExpiredToken"
             /\ last'.user = <<>>
             /\ UNCHANGED <<user, menuitem, booking, order>>
    /\ \A t \in issued : Expired(t, now) => Expired(t, now')
    /\ now' >= now

C7_ExpiredTokenRejected == [][C7_Step]_vars

\* a token issued with ttl = -1 second is presented and refused
C7_Witness ==
    /\ PresentedSigned(last)
    /\ last.hdr[1].payload.exp = now - 1
    /\ last.status = 401
    /\ last.out = "ExpiredToken"

\* C8: for a signed, unexpired token with subject E, the request is answered
\* 401 (UserNotFound) when the store holds no record with email E at that
\* time, and otherwise runs as the stored record with email E: an admin-only
\* operation succeeds iff the stored role is "admin", whatever else the token
\* claims; resolving the identity never changes the user collection, and a
\* request refused with 401 changes nothing in the store.
C8_Step ==
    /\ (PresentedSigned(last') /\ ~Expired(last'.hdr[1], now')
            /\ "sub" \in DOMAIN last'.hdr[1].payload)
          => LET stored == WithEmail(user, last'.hdr[1].payload.sub)
             IN  IF stored = {}
                 THEN /\ last'.status = 401
                      /\ last'.out = "UserNotFound"
                 ELSE /\ last'.user # <<>>
                      /\ last'.user[1] \in stored
                      /\ last'.user = find_one(user, "email", last'.hdr[1].payload.sub)
                      /\ last'.status \in {200, 403}
                      /\ last'.op \in AdminOps
                            => (last'.status = 200 <=> last'.user[1].role = "admin")
                      /\ last'.op \notin AdminOps => last'.status = 200
    /\ last'.op \in AuthOps => user' = user
    /\ (last'.op \in AuthOps /\ last'.status = 401)
          => UNCHANGED <<user, menuitem, booking, order>>

C8_ResolveAuthoritative == [][C8_Step]_vars

\* a customer's token that carries a role claim "admin" is refused by the gate
C8_Witness ==
    /\ PresentedSigned(last)
    /\ last.op \in AdminOps
    /\ "role" \in DOMAIN last.hdr[1].payload
    /\ last.hdr[1].payload.role = "admin"
    /\ last.status = 403
    /\ last.user[1].role = "customer"

\* C9: a stored order's user_id is the string id of the user resolved from
\* the token of the request that created it, whatever user_id the body
\* carried; stored orders are never changed; list_orders returns exactly the
\* stored orders whose user_id is the caller's id.
Mine(caller, coll) == {i \in 1..Len(coll) : coll[i].user_id = <<StrId(caller["_id"])>>}

C9_Step ==
    /\ order' # order
          => /\ last'.op = "create_order"
             /\ last'.status = 200
             /\ last'.user = find_one(user, "email", last'.hdr[1].payload.sub)
             /\ Len(order') = Len(order) + 1
             /\ SubSeq(order', 1, Len(order)) = order
             /\ order'[Len(order')].user_id = <<StrId(last'.user[1]["_id"])>>
             /\ StrId(order'[Len(order')]["_id"]) = last'.out
    /\ (last'.op = "create_order" /\ last'.status = 200) => order' # order
    /\ (last'.op = "list_orders" /\ last'.status = 200)
          => /\ last'.user = find_one(user, "email", last'.hdr[1].payload.sub)
             /\ Len(last'.out) = Cardinality(Mine(last'.user[1], order))
             /\ \A i \in 1..Len(order) :
                    i \in Mine(last'.user[1], order)
                        <=> \E j \in 1..Len(last'.out) :
                                last'.out[j]["_id"] = StrId(order[i]["_id"])
             /\ \A j \in 1..Len(last'.out) :
                    last'.out[j].user_id = <<StrId(last'.user[1]["_id"])>>

C9_OrderOwnership == [][C9_Step]_vars

\* the body named another user's id, and the order was stamped with the caller's
C9_Witness ==
    /\ last.op = "create_order"
    /\ last.status = 200
    /\ last.arg.user_id # <<>>
    /\ order[Len(order)].user_id # last.arg.user_id
    /\ order[Len(order)].user_id = <<StrId(last.user[1]["_id"])>>

\* C10: every record signup creates has role "customer" and is_active true,
\* and no operation changes an existing user record; so while the store holds
\* no administrator it never gets one, no add_menu_item or list_bookings call
\* succeeds, and the menuitem collection stays empty as it was initially.
NoAdmin == \A u \in Records(user) : u.role # "admin"

C10_Step ==
    /\ SubSeq(user', 1, Len(user)) = user
    /\ user' # user
          => /\ Len(user') = Len(user) + 1
             /\ user'[Len(user')].role = "customer"
             /\ user'[Len(user')].is_active
             /\ last'.op = "signup"
    /\ NoAdmin
          => /\ NoAdmin'
             /\ menuitem' = menuitem
             /\ ~(last'.op \in AdminOps /\ last'.status = 200)

C10_NoEscalation == [](NoAdmin => menuitem = <<>>) /\ [][C10_Step]_vars

\* in a store without administrator, a signed-up customer is refused by the gate
C10_Witness ==
    /\ NoAdmin
    /\ Len(user) >= 1
    /\ last.op \in AdminOps
    /\ last.status = 403

====
